---- MODULE Spec2Model ----
(***************************************************************************)
(* MidiInMulti of rtmidi2 (latest revision): the hub that fans one user    *)
(* callback over many open RtMidiIn handles.  Every method is one action;  *)
(* the RtMidiIn objects the hub creates live in `handles`, and the calls   *)
(* an operation makes on them are logged, in order, in `native`.           *)
(***************************************************************************)
EXTENDS Integers, Sequences, FiniteSets, TLC

\* ------------------------------------------------------------------ bounds
\* number of RtMidiIn objects open_port may create in one run
MaxHandles == 2

\* ------------------------------------------------------- the environment
None == "None"

\* strings are sequences of characters, so that a glob can walk them
Korg == <<"K", "o", "r", "g">>

IACBus1 == <<"I", "A", "C", " ", "D", "r", "i", "v", "e", "r", " ", "B", "u", "s", " ", "1">>

IACOld == <<"I", "A", "C", " ", "D", "r", "i", "v", "e", "r", " ", "O", "l", "d">>

USBMidi == <<"U", "S", "B", " ", "M", "I", "D", "I">>

EmptyString == <<>>

\* the provider's listing: getPortName(i) for i < getPortCount()
Names == <<Korg, IACBus1>>

\* inspector.getPortCount()
getPortCount == Len(Names)

\* inspector.getPortName(port): the empty string for a port that is not listed
getPortName(port) == IF port + 1 \in DOMAIN Names THEN Names[port + 1] ELSE EmptyString

\* user handlers: the parameter names each one declares
Handlers == {"cb1", "cb2", "cb3"}

Args(func) ==
    CASE func = "cb1" -> <<"msg">>
      [] func = "cb2" -> <<"msg", "time">>
      [] func = "cb3" -> <<"src", "msg", "time">>

\* what the provider reports: a payload and a time stamp
Reports == {[message |-> <<144, 60, 100>>, time_stamp |-> 0],
            [message |-> <<176, 7>>, time_stamp |-> 5]}

\* ------------------------------------------------------------- the state
VARIABLES
    ptrs,                \* vector[RtMidiIn*]: the handles, in open order
    openedports,         \* _openedports: the port indices, in open order
    py_callback,         \* the installed handler, or None
    qualified_callbacks, \* the (source, handler) tuples kept alive
    hascallback,         \* dict: key -> bool
    handles,             \* every RtMidiIn created by open_port, by identity
    native,              \* provider calls made by the last operation
    result,              \* the last operation, its arguments and outcome
    invoked,             \* handler invocations made by the last event
    binding,             \* what the caller last asked for: handler, source mode
    lastopen,            \* ports whose most recent successful call was an open
    matching,            \* the last ports_matching call: listing, arguments, result
    midiout,             \* a MidiOut: msg3_locked, its last call and what it sent
    midiin               \* a single-port MidiIn: its fields and its RtMidiIn

vars == <<ptrs, openedports, py_callback, qualified_callbacks, hascallback,
          handles, native, result, invoked, binding, lastopen, matching,
          midiout, midiin>>

\* ----------------------------------------------------------- small helpers
Range(s) == {s[k] : k \in 1..Len(s)}

\* list.index(x): first position (1-based here) holding x
IndexOf(s, x) == CHOOSE k \in 1..Len(s) : s[k] = x /\ \A j \in 1..(k-1) : s[j] # x

\* (mutant) removes the first element whatever k is
RemoveAt_first(s, k) == Tail(s)

\* list.pop(k) / vector.erase(begin()+k), k 1-based here
RemoveAt(s, k) == [j \in 1..(Len(s)-1) |-> IF j < k THEN s[j] ELSE s[j+1]]

\* dict.get(key, False)
DictGet(d, key) == IF key \in DOMAIN d THEN d[key] ELSE FALSE

\* d[key] = value
DictPut(d, key, value) ==
    [x \in (DOMAIN d) \cup {key} |-> IF x = key THEN value ELSE d[x]]

EmptyDict == [x \in {} |-> FALSE]

\* the source a three-argument handler is called with
NoSrc == [kind |-> "none", index |-> -1, name |-> EmptyString]

SrcIndex(port) == [kind |-> "index", index |-> port, name |-> EmptyString]

SrcName(port) == [kind |-> "name", index |-> -1, name |-> getPortName(port)]

\* what a handle has registered: the C callback and its userData
NoReg == [fn |-> "none", cb |-> None, src |-> NoSrc]

\* the hub and the native objects as one value, for the helpers below
Cur == [ptrs |-> ptrs, openedports |-> openedports, py_callback |-> py_callback,
        qualified_callbacks |-> qualified_callbacks, hascallback |-> hascallback,
        handles |-> handles, native |-> <<>>, ret |-> None]

\* ------------------------------------------------ the provider (RtMidiIn)
\* RtMidiIn::setCallback: registers (fn, userData); a second registration
\* without a cancel in between is refused with a warning
setCallback(S, ptr, fn, cb, src) ==
    LET fresh == S.handles[ptr].reg = NoReg
    IN [S EXCEPT
          !.handles[ptr].reg = IF fresh THEN [fn |-> fn, cb |-> cb, src |-> src] ELSE @,
          !.native = Append(@, [call |-> "setCallback", h |-> ptr, ok |-> fresh])]

\* RtMidiIn::cancelCallback: unregisters; a warning when nothing is registered
cancelCallback(S, ptr) ==
    [S EXCEPT
       !.handles[ptr].reg = NoReg,
       !.native = Append(@, [call |-> "cancelCallback", h |-> ptr,
                             ok |-> S.handles[ptr].reg # NoReg])]

\* RtMidi::closePort
closePort(S, ptr) ==
    [S EXCEPT
       !.handles[ptr].connected = FALSE,
       !.native = Append(@, [call |-> "closePort", h |-> ptr,
                             ok |-> S.handles[ptr].connected])]

\* new RtMidiIn(...) followed by openPort(port)
newRtMidiIn(S, port) ==
    LET ptr == Len(S.handles) + 1
    IN [S EXCEPT
          !.handles = Append(@, [port |-> port, connected |-> TRUE, reg |-> NoReg]),
          !.native = Append(@, [call |-> "openPort", h |-> ptr, ok |-> TRUE])]

\* ---------------------------------------------------------- the utilities
\* _func_get_numargs: the declared parameters other than self
func_get_numargs(func) ==
    Cardinality({k \in 1..Len(Args(func)) : Args(func)[k] # "self"})

\* fnmatch: the end of a character class that opens at pat[1] = "[" (the
\* position of its "]"), or 0 when the bracket is never closed
ClassEnd(pat) ==
    LET first == IF Len(pat) >= 2 /\ pat[2] = "!" THEN 3 ELSE 2
        from  == IF Len(pat) >= first /\ pat[first] = "]" THEN first + 1 ELSE first
        ends  == {j \in from..Len(pat) : pat[j] = "]"}
    IN IF ends = {} THEN 0 ELSE CHOOSE j \in ends : \A k \in ends : j <= k

\* (mutant) a glob that only has to match a prefix of the name
RECURSIVE fnmatch_prefix(_, _)
fnmatch_prefix(name, pat) ==
    IF pat = <<>> THEN TRUE
    ELSE IF Head(pat) = "*" THEN TRUE
    ELSE IF name = <<>> THEN FALSE
    ELSE (Head(pat) = "?" \/ Head(pat) = Head(name))
            /\ fnmatch_prefix(Tail(name), Tail(pat))

\* fnmatch.fnmatch(name, pat): "*" any run, "?" any one character, "[seq]"
\* and "[!seq]" a character (not) of seq, anything else itself; the whole
\* name has to match (character ranges a-z are not modelled)
RECURSIVE fnmatch(_, _)
fnmatch(name, pat) ==
    IF pat = <<>> THEN name = <<>>
    ELSE IF Head(pat) = "*"
    THEN fnmatch(name, Tail(pat)) \/ (name # <<>> /\ fnmatch(Tail(name), pat))
    ELSE IF name = <<>> THEN FALSE
    ELSE IF Head(pat) = "?" THEN fnmatch(Tail(name), Tail(pat))
    ELSE IF Head(pat) = "[" /\ ClassEnd(pat) # 0
    THEN LET end     == ClassEnd(pat)
             negated == pat[2] = "!"
             members == {pat[j] : j \in (IF negated THEN 3 ELSE 2)..(end - 1)}
         IN /\ (Head(name) \in members) # negated
            /\ fnmatch(Tail(name), SubSeq(pat, end + 1, Len(pat)))
    ELSE Head(pat) = Head(name) /\ fnmatch(Tail(name), Tail(pat))

\* --------------------------------------------------- MidiInMulti, private
\* the ports property: the names of the listing that are not empty
ports(listing) == SelectSeq(listing, LAMBDA name : name # EmptyString)

\* exclude=None, exclude=pattern
NoExclude == [none |-> TRUE, pat |-> <<>>]

Exclude(pat) == [none |-> FALSE, pat |-> pat]

\* ports_matching: the positions (0-based) in the ports property of the names
\* that match pattern and not exclude
ports_matching(listing, pattern, exclude) ==
    LET names == ports(listing)
        hit(i) == /\ fnmatch(names[i], pattern)
                  /\ (exclude.none \/ ~fnmatch(names[i], exclude.pat))
        found == SelectSeq([i \in 1..Len(names) |-> i], hit)
    IN [k \in 1..Len(found) |-> found[k] - 1]

\* (mutant) _cancel_callbacks reading the flag of the position, as close_port does
RECURSIVE cancel_callbacks_loop_bypos(_, _)
cancel_callbacks_loop_bypos(S, i) ==
    IF i > Len(S.ptrs) THEN S
    ELSE LET ptr  == S.ptrs[i]
             port == S.openedports[i]
             S1   == IF DictGet(S.hascallback, i - 1)
                     THEN [cancelCallback(S, ptr) EXCEPT
                              !.hascallback = DictPut(@, port, FALSE)]
                     ELSE S
         IN cancel_callbacks_loop_bypos(S1, i + 1)

\* _cancel_callbacks: the loop over the open handles
RECURSIVE cancel_callbacks_loop(_, _)
cancel_callbacks_loop(S, i) ==
    IF i > Len(S.ptrs) THEN S
    ELSE LET ptr  == S.ptrs[i]
             port == S.openedports[i]
             S1   == IF DictGet(S.hascallback, port)
                     THEN [cancelCallback(S, ptr) EXCEPT
                              !.hascallback = DictPut(@, port, FALSE)]
                     ELSE S
         IN cancel_callbacks_loop(S1, i + 1)

\* _cancel_callbacks
cancel_callbacks(S) ==
    [cancel_callbacks_loop(S, 1) EXCEPT !.py_callback = None]

\* _set_qualified_callback: the tuple registered for a port
QualifiedTuple(port, callback, src_as_string) ==
    IF ~src_as_string
    THEN [src |-> SrcIndex(port), cb |-> callback]
    ELSE [src |-> SrcName(port), cb |-> callback]

\* (mutant) _set_qualified_callback taking the source from the position
RECURSIVE set_qualified_callback_loop_bypos(_, _, _, _)
set_qualified_callback_loop_bypos(S, callback, src_as_string, i) ==
    IF i > Len(S.ptrs) THEN S
    ELSE LET ptr  == S.ptrs[i]
             port == S.openedports[i]
             S1   == IF DictGet(S.hascallback, port) THEN cancelCallback(S, ptr) ELSE S
             tup  == QualifiedTuple(i - 1, callback, src_as_string)
             S2   == [S1 EXCEPT !.qualified_callbacks = Append(@, tup)]
             S3   == setCallback(S2, ptr, "midi_in_callback_with_src", tup.cb, tup.src)
             S4   == [S3 EXCEPT !.hascallback = DictPut(@, port, TRUE)]
         IN set_qualified_callback_loop_bypos(S4, callback, src_as_string, i + 1)

\* _set_qualified_callback: the loop over the open handles
RECURSIVE set_qualified_callback_loop(_, _, _, _)
set_qualified_callback_loop(S, callback, src_as_string, i) ==
    IF i > Len(S.ptrs) THEN S
    ELSE LET ptr  == S.ptrs[i]
             port == S.openedports[i]
             S1   == IF DictGet(S.hascallback, port) THEN cancelCallback(S, ptr) ELSE S
             tup  == QualifiedTuple(port, callback, src_as_string)
             S2   == [S1 EXCEPT !.qualified_callbacks = Append(@, tup)]
             S3   == setCallback(S2, ptr, "midi_in_callback_with_src", tup.cb, tup.src)
             S4   == [S3 EXCEPT !.hascallback = DictPut(@, port, TRUE)]
         IN set_qualified_callback_loop(S4, callback, src_as_string, i + 1)

\* _set_qualified_callback, before its loop: the new handler is stored and
\* the list of tuples is replaced by an empty one
set_qualified_callback_enter(S, callback) ==
    [S EXCEPT !.py_callback = callback, !.qualified_callbacks = <<>>]

\* _set_qualified_callback
set_qualified_callback(S, callback, src_as_string) ==
    set_qualified_callback_loop(
        set_qualified_callback_enter(S, callback), callback, src_as_string, 1)

\* (mutant) the two-argument branch without the cancelCallback
RECURSIVE callback_set_loop_nocancel(_, _, _)
callback_set_loop_nocancel(S, callback, i) ==
    IF i > Len(S.ptrs) THEN S
    ELSE LET ptr  == S.ptrs[i]
             port == S.openedports[i]
             S2   == setCallback(S, ptr, "midi_in_callback", callback, NoSrc)
             S3   == [S2 EXCEPT !.hascallback = DictPut(@, port, TRUE)]
         IN callback_set_loop_nocancel(S3, callback, i + 1)

\* callback.__set__: the loop of the two-argument branch
RECURSIVE callback_set_loop(_, _, _)
callback_set_loop(S, callback, i) ==
    IF i > Len(S.ptrs) THEN S
    ELSE LET ptr  == S.ptrs[i]
             port == S.openedports[i]
             S1   == IF DictGet(S.hascallback, port) THEN cancelCallback(S, ptr) ELSE S
             S2   == setCallback(S1, ptr, "midi_in_callback", callback, NoSrc)
             S3   == [S2 EXCEPT !.hascallback = DictPut(@, port, TRUE)]
         IN callback_set_loop(S3, callback, i + 1)

\* callback.__set__, the two-argument branch before its loop: the new handler
\* is stored
callback_set_enter(S, callback) == [S EXCEPT !.py_callback = callback]

\* callback.__set__
callback_set(S, callback) ==
    IF callback = None
    THEN cancel_callbacks(S)
    ELSE IF func_get_numargs(callback) = 3
         THEN set_qualified_callback(S, callback, TRUE)
         ELSE callback_set_loop(callback_set_enter(S, callback), callback, 1)

\* callback.__get__ / get_callback
get_callback(S) == S.py_callback

\* ---------------------------------------------------- MidiInMulti, public
\* (mutant) the earlier revision: a new port gets no callback
open_port_rebind_snapshot(S) == S

\* open_port: re-applies the installed handler after a successful open
open_port_rebind(S) ==
    IF S.py_callback # None
    THEN callback_set(cancel_callbacks(S), S.py_callback)
    ELSE S

\* (mutant) open_port without the test for an open port
open_port_raises_nodup(S, port) ==
    IF port >= getPortCount THEN "ValueError: Port out of range" ELSE None

\* (mutant) open_port accepting the index one past the last port
open_port_raises_offbyone(S, port) ==
    IF port > getPortCount THEN "ValueError: Port out of range"
    ELSE IF port \in Range(S.openedports) THEN "ValueError: Port already open!"
    ELSE None

\* open_port: the two tests it starts with
open_port_raises(S, port) ==
    IF port >= getPortCount THEN "ValueError: Port out of range"
    ELSE IF port \in Range(S.openedports) THEN "ValueError: Port already open!"
    ELSE None

\* open_port
open_port(S, port) ==
    IF open_port_raises(S, port) # None
    THEN [S EXCEPT !.ret = open_port_raises(S, port)]
    ELSE LET newport == Len(S.handles) + 1
             S1 == newRtMidiIn(S, port)
             S2 == [S1 EXCEPT !.ptrs = Append(@, newport),
                              !.openedports = Append(@, port)]
         IN [open_port_rebind(S2) EXCEPT !.ret = "self"]

\* (mutant) close_ports reading the flag of the position, as close_port does
RECURSIVE close_ports_loop_bypos(_, _)
close_ports_loop_bypos(S, i) ==
    IF i > Len(S.openedports) THEN S
    ELSE LET ptr == S.ptrs[i]
             S1  == IF DictGet(S.hascallback, i - 1) THEN cancelCallback(S, ptr) ELSE S
         IN close_ports_loop_bypos(closePort(S1, ptr), i + 1)

\* close_ports: the loop over the open handles
RECURSIVE close_ports_loop(_, _)
close_ports_loop(S, i) ==
    IF i > Len(S.openedports) THEN S
    ELSE LET ptr  == S.ptrs[i]
             port == S.openedports[i]
             S1   == IF DictGet(S.hascallback, port) THEN cancelCallback(S, ptr) ELSE S
         IN close_ports_loop(closePort(S1, ptr), i + 1)

\* (mutant) close_ports forgetting the handles but not their indices
close_ports_keepsindices(S) ==
    [close_ports_loop(S, 1) EXCEPT
        !.hascallback = EmptyDict, !.ptrs = <<>>, !.ret = "1"]

\* (mutant) close_ports keeping both lists
close_ports_noclear(S) ==
    [close_ports_loop(S, 1) EXCEPT !.hascallback = EmptyDict, !.ret = "1"]

\* close_ports
close_ports(S) ==
    [close_ports_loop(S, 1) EXCEPT
        !.hascallback = EmptyDict, !.ptrs = <<>>, !.openedports = <<>>, !.ret = "1"]

\* (mutant) close_port without the test: list.index raises
close_port_unguarded(S, port) ==
    IF port \notin Range(S.openedports)
    THEN [S EXCEPT !.ret = "ValueError: not in list"]
    ELSE LET port_index == IndexOf(S.openedports, port)
             ptr == S.ptrs[port_index]
             S1  == IF DictGet(S.hascallback, port_index - 1)
                    THEN cancelCallback(S, ptr) ELSE S
             S2  == closePort(S1, ptr)
         IN [S2 EXCEPT !.ptrs = RemoveAt(@, port_index),
                       !.openedports = RemoveAt(@, port_index),
                       !.ret = "1"]

\* (mutant) close_port cancelling every callback, as open_port does
close_port_cancelsall(S, port) ==
    IF port \notin Range(S.openedports)
    THEN [S EXCEPT !.ret = "0"]
    ELSE LET port_index == IndexOf(S.openedports, port)
             ptr == S.ptrs[port_index]
             S1  == [cancel_callbacks_loop(S, 1) EXCEPT !.py_callback = S.py_callback]
             S2  == closePort(S1, ptr)
         IN [S2 EXCEPT !.ptrs = RemoveAt(@, port_index),
                       !.openedports = RemoveAt(@, port_index),
                       !.ret = "1"]

\* close_port
close_port(S, port) ==
    IF port \notin Range(S.openedports)
    THEN [S EXCEPT !.ret = "0"]
    ELSE LET port_index == IndexOf(S.openedports, port)
             ptr == S.ptrs[port_index]
             \* the dict is read with the position (0-based), not the port
             S1  == IF DictGet(S.hascallback, port_index - 1)
                    THEN cancelCallback(S, ptr) ELSE S
             S2  == closePort(S1, ptr)
         IN [S2 EXCEPT !.ptrs = RemoveAt(@, port_index),
                       !.openedports = RemoveAt(@, port_index),
                       !.ret = "1"]

\* (mutant) a teardown that only drops the list of handles
dealloc_leaks(S) == [S EXCEPT !.ptrs = <<>>, !.openedports = <<>>]

\* __dealloc__: close_ports; the inspector has no port open, its closePort
\* does nothing; then the list of handles and the inspector are deleted
dealloc(S) == close_ports(S)

\* open_ports: the matches of all the patterns, in the order they are opened
RECURSIVE open_ports_matches(_, _)
open_ports_matches(patterns, exclude) ==
    IF patterns = <<>> THEN <<>>
    ELSE ports_matching(Names, Head(patterns), exclude)
            \o open_ports_matches(Tail(patterns), exclude)

\* open_ports, given the matches of its patterns: open_port on each match;
\* the first exception ends the call
RECURSIVE open_ports(_, _)
open_ports(S, matches) ==
    IF matches = <<>> THEN [S EXCEPT !.ret = "self"]
    ELSE LET S1 == open_port(S, Head(matches))
         IN IF S1.ret # "self" THEN S1 ELSE open_ports(S1, Tail(matches))

\* (mutant) get_message answering as MidiIn.get_message does with no message
get_message_empty(S) == [S EXCEPT !.ret = "(None, None)"]

\* get_message: `raise NotImplemented(...)` calls the NotImplemented
\* constant, which raises TypeError
get_message(S) ==
    [S EXCEPT !.ret = "TypeError: 'NotImplementedType' object is not callable"]

\* (mutant) set_callback taking any other handler as a two-argument one, as
\* the callback property does
set_callback_lenient(S, callback, src_as_string) ==
    IF func_get_numargs(callback) = 3
    THEN [set_qualified_callback(S, callback, src_as_string) EXCEPT !.ret = "self"]
    ELSE [callback_set(S, callback) EXCEPT !.ret = "self"]

\* set_callback
set_callback(S, callback, src_as_string) ==
    LET numargs == func_get_numargs(callback)
    IN IF numargs = 2
       THEN [callback_set(S, callback) EXCEPT !.ret = "self"]
       ELSE IF numargs = 3
       THEN [set_qualified_callback(S, callback, src_as_string) EXCEPT !.ret = "self"]
       ELSE [S EXCEPT !.ret = "ValueError: Your callback has to have either the signature"]

\* (mutant) the copy of the payload stops one byte short
Dispatch_dropslast(reg, message_vector, time_stamp) ==
    LET message == [i \in 1..(Len(message_vector) - 1) |-> message_vector[i]]
    IN CASE reg.fn = "midi_in_callback" ->
              <<[cb |-> reg.cb, nargs |-> 2, src |-> NoSrc,
                 message |-> message, time_stamp |-> time_stamp]>>
         [] reg.fn = "midi_in_callback_with_src" ->
              <<[cb |-> reg.cb, nargs |-> 3, src |-> reg.src,
                 message |-> message, time_stamp |-> time_stamp]>>
         [] OTHER -> <<>>

\* (mutant) the handler is called twice for one event
Dispatch_twice(reg, message_vector, time_stamp) ==
    LET call == [cb |-> reg.cb, nargs |-> IF reg.fn = "midi_in_callback" THEN 2 ELSE 3,
                 src |-> reg.src, message |-> message_vector,
                 time_stamp |-> time_stamp]
    IN IF reg.fn = "none" THEN <<>> ELSE <<call, call>>

\* midi_in_callback / midi_in_callback_with_src: what one reported event
\* makes the handle's registered C callback do
Dispatch(reg, message_vector, time_stamp) ==
    LET message == [i \in 1..Len(message_vector) |-> message_vector[i]]
    IN CASE reg.fn = "midi_in_callback" ->
              <<[cb |-> reg.cb, nargs |-> 2, src |-> NoSrc,
                 message |-> message, time_stamp |-> time_stamp]>>
         [] reg.fn = "midi_in_callback_with_src" ->
              <<[cb |-> reg.cb, nargs |-> 3, src |-> reg.src,
                 message |-> message, time_stamp |-> time_stamp]>>
         [] OTHER -> <<>>

\* ------------------------------------------------------------- MidiOut
\* the message types
DNOTEON == 144

DCC == 176

DNOTEOFF == 128

DPROGCHANGE == 192

DPITCHWHEEL == 224

\* Python's and Cython's `&` on non-negative integers
RECURSIVE BitAnd(_, _)
BitAnd(a, b) ==
    IF a = 0 \/ b = 0 THEN 0
    ELSE (a % 2) * (b % 2) + 2 * BitAnd(a \div 2, b \div 2)

\* `|` on non-negative integers
RECURSIVE BitOr(_, _)
BitOr(a, b) ==
    IF a = 0 THEN b
    ELSE IF b = 0 THEN a
    ELSE (IF a % 2 = 1 \/ b % 2 = 1 THEN 1 ELSE 0) + 2 * BitOr(a \div 2, b \div 2)

\* (mutant) splitchannel answering the two nibbles
splitchannel_nibbles(b) == <<b \div 16, b % 16>>

\* splitchannel
splitchannel(b) == <<BitAnd(b, 240), BitAnd(b, 15)>>

\* MidiOut.__cinit__: the shared three-byte buffer is free
\* and no virtual port is open. connected and native are the provider's side:
\* the port the handle is connected to and the port calls of the last
\* operation; virtualcalls counts the openVirtualPort calls that reached the
\* provider, closed tells whether close_port has been called, crashed whether
\* the process has died
MidiOut_cinit ==
    [msg3_locked |-> 0, virtual_port_opened |-> FALSE, openedports |-> <<>>,
     connected |-> -1, native |-> <<>>, virtualcalls |-> 0, closed |-> FALSE,
     crashed |-> FALSE, op |-> "cinit", args |-> <<>>, sent |-> <<>>, ret |-> None]

\* how a MidiOut call ends: the messages handed to the provider, in order,
\* and what the call returns or raises
Outcome(sent, ret) == <<sent, ret>>

\* _send_raw: what the provider is handed, and how the call ends. With
\* msg3_locked set the three bytes are written into a new vector of size 0:
\* the write is out of bounds, the process dies there or goes on and hands
\* the provider the vector, still of size 0
send_raw(locked, b0, b1, b2) ==
    IF locked # 0
    THEN {Outcome(<<>>, "crash"), Outcome(<< <<>> >>, None)}
    ELSE {Outcome(<< <<b0, b1, b2>> >>, None)}

\* send_message: the first three items of the tuple
send_message(locked, message) ==
    send_raw(locked, message[1], message[2], message[3])

\* send_pitchbend: nothing above 14 bits, else the low and the high 7 bits
send_pitchbend(locked, channel, transp) ==
    IF transp > 16383
    THEN {Outcome(<<>>, None)}
    ELSE send_raw(locked, (DPITCHWHEEL + channel) % 256,
                  BitAnd(transp, 127) % 256, (transp \div 128) % 256)

\* int() of the quotient n/d, d > 0: the fraction is dropped, towards zero
Trunc(n, d) == IF n >= 0 THEN n \div d ELSE -((-n) \div d)

\* cents2pitchbend: int((cents+maxdeviation)/(maxdeviation*2.0) * 16383.0 + 0.5),
\* as the exact quotient ((cents+maxdeviation)*16383 + maxdeviation) / (2*maxdeviation)
cents2pitchbend(cents, maxdeviation) ==
    Trunc((cents + maxdeviation) * 16383 + maxdeviation, 2 * maxdeviation)

\* pitchbend2cents: int(((pitchbend/16383.0)*(maxcents*2.0))-maxcents+0.5), as
\* the exact quotient (4*pitchbend*maxcents - 2*maxcents*16383 + 16383) / (2*16383)
pitchbend2cents(pitchbend, maxcents) ==
    Trunc(4 * pitchbend * maxcents - 2 * maxcents * 16383 + 16383, 2 * 16383)

\* send_noteon
send_noteon(locked, channel, midinote, velocity) ==
    send_raw(locked, BitOr(DNOTEON, channel), midinote, velocity)

\* send_noteoff
send_noteoff(locked, channel, midinote) ==
    send_raw(locked, BitOr(DNOTEOFF, channel), midinote, 0)

\* send_cc
send_cc(locked, channel, cc, value) ==
    send_raw(locked, BitOr(DCC, channel), cc, value)

\* send_messages: each tuple is unpacked into the three bytes and sent;
\* messagetype is not read
send_messages(messagetype, messages) ==
    {Outcome([k \in 1..Len(messages) |->
                 <<messages[k][1], messages[k][2], messages[k][3]>>], None)}

\* a Python value that is an int, or a list
PyInt(value) == [int |-> value]

PyList(value) == [list |-> value]

\* isinstance(channels, int)
IsInt(channels) == "int" \in DOMAIN channels

\* send_noteon_many: channels[i], notes[i], vels[i] for every i. `<list>channels`
\* is an unchecked cast: indexing an int through it reads the int's memory as
\* a list's, which ends in the generic lookup (TypeError) or in a crash
send_noteon_many(channels, notes, vels) ==
    IF notes = <<>> THEN {Outcome(<<>>, None)}
    ELSE IF IsInt(channels)
    THEN {Outcome(<<>>, "TypeError: 'int' object is not subscriptable"),
          Outcome(<<>>, "crash")}
    ELSE {Outcome([k \in 1..Len(notes) |->
                      <<BitOr(DNOTEON, channels.list[k]), notes[k], vels[k]>>], None)}

\* ------------------------------------------- MidiIn, the single-port input
\* MidiIn.__cinit__: a new RtMidiIn, py_callback = None; _openedports, the
\* list declared in MidiBase, is assigned nowhere and so is None
MidiIn_cinit ==
    [openedports |-> None, connected |-> -1, py_callback |-> None, reg |-> None,
     native |-> <<>>, op |-> "cinit", arg |-> None, ret |-> None]

\* self._openedports.append(port_number); return self
MidiBase_append(M, port_number) ==
    IF M.openedports = None
    THEN [M EXCEPT !.ret = "AttributeError: 'NoneType' object has no attribute 'append'"]
    ELSE [M EXCEPT !.openedports = Append(@, port_number), !.ret = "self"]

\* RtMidiIn::openPort: connects, unless a connection exists already (warning)
MidiIn_openPort(M, port_number) ==
    [M EXCEPT !.connected = IF @ = -1 THEN port_number ELSE @,
              !.native = Append(@, [call |-> "openPort", port |-> port_number,
                                    ok |-> M.connected = -1])]

\* MidiBase.open_port with an integer
MidiBase_open_port_int(M, port) ==
    IF port > Len(ports(Names)) - 1
    THEN [M EXCEPT !.ret = "ValueError: port number out of range"]
    ELSE MidiBase_append(MidiIn_openPort(M, port), port)

\* MidiBase.open_port with a string: an exact name, or else the first match
\* of the string taken as a pattern
MidiBase_open_port_str(M, port) ==
    IF port \in Range(ports(Names))
    THEN LET port_number == IndexOf(ports(Names), port) - 1
         IN MidiBase_append(MidiIn_openPort(M, port_number), port_number)
    ELSE LET match == ports_matching(Names, port, NoExclude)
         IN IF match # <<>>
            THEN MidiBase_open_port_int(M, match[1])
            ELSE [M EXCEPT !.ret = "ValueError: Port not found"]

\* MidiBase.close_port
MidiBase_close_port(M) ==
    [M EXCEPT !.connected = -1,
              !.native = Append(@, [call |-> "closePort", port |-> M.connected,
                                    ok |-> M.connected # -1]),
              !.ret = None]

\* MidiIn.callback.__set__
MidiIn_callback_set(M, callback) ==
    IF callback = None
    THEN IF M.py_callback # None
         THEN [M EXCEPT !.py_callback = None, !.reg = None,
                        !.native = Append(@, [call |-> "cancelCallback", port |-> -1,
                                              ok |-> M.reg # None]),
                        !.ret = None]
         ELSE [M EXCEPT !.ret = None]
    ELSE [M EXCEPT !.py_callback = callback,
                   !.reg = IF @ = None THEN callback ELSE @,
                   !.native = Append(@, [call |-> "setCallback", port |-> -1,
                                         ok |-> M.reg = None]),
                   !.ret = None]

\* a Python value that is a str (its code points), or bytes
PyStr(value) == [str |-> value]

PyBytes(value) == [bytes |-> value]

\* port_name.encode("ASCII", errors="ignore") unless port_name is bytes: the
\* code points above 127 are dropped
encode_port_name(port_name) ==
    IF "bytes" \in DOMAIN port_name
    THEN port_name
    ELSE PyBytes(SelectSeq(port_name.str, LAMBDA c : c < 128))

\* MidiBase.open_virtual_port: the name is recorded, then the provider called
MidiBase_open_virtual_port(M, port_name) ==
    LET name == encode_port_name(port_name)
        A == MidiBase_append(M, name)
    IN IF M.openedports = None
       THEN A
       ELSE [A EXCEPT !.native = Append(@, [call |-> "openVirtualPort",
                                            port |-> name, ok |-> TRUE])]

\* (mutant) open_virtual_port without the test of virtual_port_opened
MidiOut_open_virtual_port_unguarded(M, port_name) ==
    MidiBase_open_virtual_port([M EXCEPT !.virtual_port_opened = TRUE], port_name)

\* MidiOut.open_virtual_port
MidiOut_open_virtual_port(M, port_name) ==
    IF M.virtual_port_opened
    THEN [M EXCEPT !.ret = "IOError: Only one virtual port can be opened. If you need more, create a new MidiOut"]
    ELSE MidiBase_open_virtual_port([M EXCEPT !.virtual_port_opened = TRUE],
                                    encode_port_name(port_name))

\* ------------------------------------------------------------ the actions
Init ==
    /\ ptrs = <<>>
    /\ openedports = <<>>
    /\ py_callback = None
    /\ qualified_callbacks = <<>>
    /\ hascallback = EmptyDict
    /\ handles = <<>>
    /\ native = <<>>
    /\ result = [op |-> "init", port |-> -1, ret |-> None]
    /\ invoked = <<>>
    /\ binding = [cb |-> None, src_as_string |-> TRUE]
    /\ lastopen = {}
    /\ matching = [listing |-> Names, called |-> FALSE, pattern |-> <<>>,
                   exclude |-> NoExclude, indices |-> <<>>]
    /\ midiout = MidiOut_cinit
    /\ midiin = MidiIn_cinit

\* the hub's fields and the native objects after an operation
Commit(S) ==
    /\ ptrs' = S.ptrs
    /\ openedports' = S.openedports
    /\ py_callback' = S.py_callback
    /\ qualified_callbacks' = S.qualified_callbacks
    /\ hascallback' = S.hascallback
    /\ handles' = S.handles
    /\ native' = S.native
    /\ invoked' = <<>>
    /\ UNCHANGED <<matching, midiout, midiin>>

\* the binding a caller asks for; src_as_string only applies to a handler
\* of three parameters
Asked(callback, src_as_string) ==
    [cb |-> callback,
     src_as_string |-> IF callback # None /\ func_get_numargs(callback) = 3
                       THEN src_as_string ELSE TRUE]

OpenPort(port) ==
    LET S == open_port(Cur, port)
    IN /\ S.ret = "self" => Len(handles) < MaxHandles
       /\ Commit(S)
       /\ result' = [op |-> "open_port", port |-> port, ret |-> S.ret]
       /\ lastopen' = IF S.ret = "self" THEN lastopen \cup {port} ELSE lastopen
       /\ UNCHANGED binding

ClosePort(port) ==
    LET S == close_port(Cur, port)
    IN /\ Commit(S)
       /\ result' = [op |-> "close_port", port |-> port, ret |-> S.ret]
       /\ lastopen' = IF S.ret = "1" THEN lastopen \ {port} ELSE lastopen
       /\ UNCHANGED binding

ClosePorts ==
    LET S == close_ports(Cur)
    IN /\ Commit(S)
       /\ result' = [op |-> "close_ports", port |-> -1, ret |-> S.ret]
       /\ lastopen' = {}
       /\ UNCHANGED binding

\* midiin.callback = callback
CallbackAssign(callback) ==
    LET S == callback_set(Cur, callback)
    IN /\ Commit(S)
       /\ result' = [op |-> "callback", port |-> -1, ret |-> None]
       /\ binding' = Asked(callback, TRUE)
       /\ UNCHANGED lastopen

SetCallback(callback, src_as_string) ==
    LET S == set_callback(Cur, callback, src_as_string)
    IN /\ Commit(S)
       /\ result' = [op |-> "set_callback", port |-> -1, ret |-> S.ret]
       /\ binding' = IF S.ret = "self" THEN Asked(callback, src_as_string) ELSE binding
       /\ UNCHANGED lastopen

\* the provider reports one event on a handle; RtMidi delivers events only
\* while the handle's port is open
Event(h, message_vector, time_stamp) ==
    /\ handles[h].connected
    /\ invoked' = Dispatch(handles[h].reg, message_vector, time_stamp)
    /\ native' = <<>>
    /\ result' = [op |-> "event", port |-> handles[h].port, ret |-> None]
    /\ UNCHANGED <<ptrs, openedports, py_callback, qualified_callbacks,
                   hascallback, handles, binding, lastopen, matching,
                   midiout, midiin>>

\* the patterns open_ports is called with
PatternLists == {<<<<"*">>>>, <<<<"K", "*">>, <<"*">>>>, <<<<"I", "A", "C", "*">>>>}

Excludes == {NoExclude, Exclude(<<"K", "*">>)}

\* the open_ports calls made, each with what ports_matching answers for its
\* patterns (the listing does not change during a run)
OpenPortsCalls ==
    {[patterns |-> patterns, exclude |-> exclude,
      matches |-> open_ports_matches(patterns, exclude)] :
        patterns \in PatternLists, exclude \in Excludes}

OpenPorts(call) ==
    LET S == open_ports(Cur, call.matches)
    IN /\ Len(S.handles) <= MaxHandles
       /\ Commit(S)
       /\ result' = [op |-> "open_ports", port |-> -1, ret |-> S.ret]
       /\ lastopen' = lastopen \cup
             {S.handles[S.native[k].h].port :
                 k \in {j \in 1..Len(S.native) : S.native[j].call = "openPort"}}
       /\ UNCHANGED binding

GetMessage ==
    LET S == get_message(Cur)
    IN /\ Commit(S)
       /\ result' = [op |-> "get_message", port |-> -1, ret |-> S.ret]
       /\ UNCHANGED <<binding, lastopen>>

\* the hub is garbage-collected; nothing can be called on it afterwards
Dealloc ==
    LET S == dealloc(Cur)
    IN /\ Commit(S)
       /\ result' = [op |-> "dealloc", port |-> -1, ret |-> None]
       /\ lastopen' = {}
       /\ UNCHANGED binding

\* the hub has not been torn down
Alive == result.op # "dealloc"

Next ==
    \/ Alive /\ Dealloc
    \/ \E port \in 0..(getPortCount + 1) : Alive /\ OpenPort(port)
    \/ \E port \in 0..getPortCount : Alive /\ ClosePort(port)
    \/ Alive /\ ClosePorts
    \/ \E callback \in Handlers \cup {None} : Alive /\ CallbackAssign(callback)
    \/ \E callback \in Handlers, src_as_string \in BOOLEAN :
          Alive /\ SetCallback(callback, src_as_string)
    \/ \E h \in 1..Len(handles), r \in Reports : Alive /\ Event(h, r.message, r.time_stamp)
    \/ \E call \in OpenPortsCalls : Alive /\ OpenPorts(call)
    \/ Alive /\ GetMessage

Spec == Init /\ [][Next]_vars

\* ---------------------------------------- ports_matching on its own
\* provider listings; a port may have an empty name
Listings ==
    {<<IACBus1, IACOld, USBMidi>>,
     <<Korg, IACBus1>>,
     <<EmptyString, Korg>>,
     <<Korg, EmptyString, IACBus1>>,
     <<USBMidi, Korg, Korg>>,
     <<>>}

Patterns ==
    {<<"*">>, <<"I", "A", "C", "*">>, <<"K", "?", "r", "g">>, <<"[", "K", "U", "]", "*">>,
     <<"[", "!", "K", "]", "*">>, IACOld}

InitMatch ==
    /\ ptrs = <<>>
    /\ openedports = <<>>
    /\ py_callback = None
    /\ qualified_callbacks = <<>>
    /\ hascallback = EmptyDict
    /\ handles = <<>>
    /\ native = <<>>
    /\ result = [op |-> "init", port |-> -1, ret |-> None]
    /\ invoked = <<>>
    /\ binding = [cb |-> None, src_as_string |-> TRUE]
    /\ lastopen = {}
    /\ \E listing \in Listings :
          matching = [listing |-> listing, called |-> FALSE, pattern |-> <<>>,
                      exclude |-> NoExclude, indices |-> <<>>]
    /\ midiout = MidiOut_cinit
    /\ midiin = MidiIn_cinit

PortsMatching(pattern, exclude) ==
    /\ matching' = [listing |-> matching.listing, called |-> TRUE,
                    pattern |-> pattern, exclude |-> exclude,
                    indices |-> ports_matching(matching.listing, pattern, exclude)]
    /\ UNCHANGED <<ptrs, openedports, py_callback, qualified_callbacks, hascallback,
                   handles, native, result, invoked, binding, lastopen,
                   midiout, midiin>>

NextMatch ==
    \E pattern \in Patterns, exclude \in {NoExclude} \cup {Exclude(p) : p \in Patterns} :
       PortsMatching(pattern, exclude)

SpecMatch == InitMatch /\ [][NextMatch]_vars

\* ------------------------------------------------- MidiOut on its own
\* the hub and its provider, which MidiOut and MidiIn do not touch
hubstate == <<ptrs, openedports, py_callback, qualified_callbacks, hascallback,
              handles, native, result, invoked, binding, lastopen, matching>>

\* the longest list passed to send_messages and send_noteon_many
MaxMessages == 2

\* the default of maxdeviation and of maxcents
DefaultDeviation == 200

Channels == 0..15

\* midinotes, controller numbers
Notes == {60, 127}

\* velocities, controller values
Values == {0, 100}

\* the tuples (channel, value1, value2) of send_messages
Tuples == {<<0, 60, 0>>, <<9, 127, 100>>, <<15, 60, 100>>}

\* the lists of length n over a set
ListsOf(set, n) == [1..n -> set]

\* the process has not died
OutAlive == ~midiout.crashed

\* one MidiOut call: its name, its arguments and one of its outcomes
OutCall(op, args, outcomes) ==
    /\ OutAlive
    /\ \E out \in outcomes :
          midiout' = [midiout EXCEPT !.op = op, !.args = args, !.native = <<>>,
                                     !.sent = out[1], !.ret = out[2],
                                     !.crashed = out[2] = "crash"]
    /\ UNCHANGED <<hubstate, midiin>>

\* midiout._locked = value
SetLocked(value) ==
    /\ OutAlive
    /\ midiout' = [midiout EXCEPT !.msg3_locked = value, !.op = "_locked",
                                  !.args = <<value>>, !.native = <<>>,
                                  !.sent = <<>>, !.ret = None]
    /\ UNCHANGED <<hubstate, midiin>>

SendNoteon(channel, midinote, velocity) ==
    OutCall("send_noteon", <<channel, midinote, velocity>>,
            send_noteon(midiout.msg3_locked, channel, midinote, velocity))

SendNoteoff(channel, midinote) ==
    OutCall("send_noteoff", <<channel, midinote>>,
            send_noteoff(midiout.msg3_locked, channel, midinote))

SendCc(channel, cc, value) ==
    OutCall("send_cc", <<channel, cc, value>>,
            send_cc(midiout.msg3_locked, channel, cc, value))

SendMessages(messagetype, messages) ==
    OutCall("send_messages", <<messagetype, messages>>,
            send_messages(messagetype, messages))

SendNoteonMany(channels, notes, vels) ==
    OutCall("send_noteon_many", <<channels, notes, vels>>,
            send_noteon_many(channels, notes, vels))

\* splitchannel is a module function; the call is recorded with the MidiOut's
Splitchannel(b) ==
    /\ OutAlive
    /\ midiout' = [midiout EXCEPT !.op = "splitchannel", !.args = <<b>>,
                                  !.native = <<>>, !.sent = <<>>,
                                  !.ret = splitchannel(b)]
    /\ UNCHANGED <<hubstate, midiin>>

\* the module functions of the pitch-bend units, recorded the same way
Cents2pitchbend(cents) ==
    /\ OutAlive
    /\ midiout' = [midiout EXCEPT !.op = "cents2pitchbend", !.args = <<cents>>,
                                  !.native = <<>>, !.sent = <<>>,
                                  !.ret = cents2pitchbend(cents, DefaultDeviation)]
    /\ UNCHANGED <<hubstate, midiin>>

Pitchbend2cents(pitchbend) ==
    /\ OutAlive
    /\ midiout' = [midiout EXCEPT !.op = "pitchbend2cents", !.args = <<pitchbend>>,
                                  !.native = <<>>, !.sent = <<>>,
                                  !.ret = pitchbend2cents(pitchbend, DefaultDeviation)]
    /\ UNCHANGED <<hubstate, midiin>>

SendRaw(b0, b1, b2) ==
    OutCall("send_raw", <<b0, b1, b2>>, send_raw(midiout.msg3_locked, b0, b1, b2))

SendMessage(message) ==
    OutCall("send_message", <<message>>, send_message(midiout.msg3_locked, message))

SendPitchbend(channel, transp) ==
    OutCall("send_pitchbend", <<channel, transp>>,
            send_pitchbend(midiout.msg3_locked, channel, transp))

\* one MidiOut call on its ports: the provider's calls of this operation are
\* counted
OutPortCall(op, args, M) ==
    /\ OutAlive
    /\ midiout' = [M EXCEPT !.op = op, !.args = args, !.sent = <<>>,
                            !.virtualcalls = @ + Cardinality(
                                {k \in 1..Len(M.native) :
                                    M.native[k].call = "openVirtualPort"}),
                            !.closed = @ \/ op = "close_port"]
    /\ UNCHANGED <<hubstate, midiin>>

OutCur == [midiout EXCEPT !.native = <<>>]

OpenVirtualPort(port_name) ==
    OutPortCall("open_virtual_port", <<port_name>>,
                MidiOut_open_virtual_port(OutCur, port_name))

OutClosePort == OutPortCall("close_port", <<>>, MidiBase_close_port(OutCur))

\* the names a virtual port is opened with: "a", "b" with a non-ASCII letter
\* before it, and b"a"
PortNames == {PyStr(<<97>>), PyStr(<<233, 98>>), PyBytes(<<97>>)}

\* the pitch-bend values send_pitchbend is called with
Transps == {0, 127, 128, 8192, 16383, 16384, 70000}

NextOut ==
    \/ \E value \in {0, 1} : SetLocked(value)
    \/ \E channel \in Channels, midinote \in Notes, velocity \in Values :
          SendNoteon(channel, midinote, velocity)
    \/ \E channel \in Channels, midinote \in Notes : SendNoteoff(channel, midinote)
    \/ \E channel \in Channels, cc \in Notes, value \in Values : SendCc(channel, cc, value)
    \/ \E messagetype \in {DNOTEON, DCC, DNOTEOFF, DPROGCHANGE, DPITCHWHEEL},
          n \in 0..MaxMessages :
          \E messages \in ListsOf(Tuples, n) : SendMessages(messagetype, messages)
    \/ \E n \in 0..MaxMessages :
          \E notes \in ListsOf(Notes, n), vels \in ListsOf(Values, n) :
             \/ \E channel \in {0, 9} : SendNoteonMany(PyInt(channel), notes, vels)
             \/ \E channels \in ListsOf({0, 9}, n) :
                   SendNoteonMany(PyList(channels), notes, vels)
    \/ \E b \in 0..255 : Splitchannel(b)

SpecOut == Init /\ [][NextOut]_vars

\* the MidiOut's virtual port, and the messages of three given bytes
NextPort ==
    \/ \E value \in {0, 1} : SetLocked(value)
    \/ \E b0 \in {DNOTEON, DPITCHWHEEL + 15}, b1 \in Notes, b2 \in Values :
          SendRaw(b0, b1, b2)
    \/ \E message \in Tuples : SendMessage(message)
    \/ \E channel \in Channels, transp \in Transps : SendPitchbend(channel, transp)
    \/ \E port_name \in PortNames : OpenVirtualPort(port_name)
    \/ OutClosePort

SpecPort == Init /\ [][NextPort]_vars

\* the two conversions of the pitch-bend units, over the whole range of cents
NextPitch ==
    \/ \E cents \in -DefaultDeviation..DefaultDeviation : Cents2pitchbend(cents)
    \/ \E cents \in -DefaultDeviation..DefaultDeviation :
          Pitchbend2cents(cents2pitchbend(cents, DefaultDeviation))

SpecPitch == Init /\ [][NextPitch]_vars

\* -------------------------------------------------- MidiIn on its own
\* one MidiIn call, from the fields as they are, with an empty call log
MidiInCall(op, arg, M) ==
    /\ midiin' = [M EXCEPT !.op = op, !.arg = arg]
    /\ UNCHANGED <<hubstate, midiout>>

MidiInCur == [midiin EXCEPT !.native = <<>>]

MidiInOpenPort(port) ==
    MidiInCall("open_port", port, MidiBase_open_port_int(MidiInCur, port))

MidiInOpenPortStr(port) ==
    MidiInCall("open_port(str)", port, MidiBase_open_port_str(MidiInCur, port))

MidiInClosePort == MidiInCall("close_port", None, MidiBase_close_port(MidiInCur))

MidiInCallback(callback) ==
    MidiInCall("callback", callback, MidiIn_callback_set(MidiInCur, callback))

\* the strings open_port is called with: a name, a pattern, a pattern of no port
PortStrings == {IACBus1, <<"K", "*">>, <<"X", "*">>}

NextIn ==
    \/ \E port \in 0..getPortCount : MidiInOpenPort(port)
    \/ \E port \in PortStrings : MidiInOpenPortStr(port)
    \/ MidiInClosePort
    \/ \E callback \in Handlers \cup {None} : MidiInCallback(callback)

SpecIn == Init /\ [][NextIn]_vars

\* ------------------------------------------------------------- the claims
\* the hub's own fields and the native objects
hubvars == <<ptrs, openedports, py_callback, qualified_callbacks, hascallback,
             handles, binding>>

\* the handles the hub holds, i.e. the open ones
OpenHandles == Range(ptrs)

\* the C callback a handler of that many parameters is registered with
Convention(cb) ==
    IF func_get_numargs(cb) = 3 THEN "midi_in_callback_with_src" ELSE "midi_in_callback"

\* the last operation cancelled a registration that was in place
CancelledSome == \E k \in 1..Len(native) : native[k].call = "cancelCallback" /\ native[k].ok

\* C1: with a handler installed (binding.cb), a successful open_port leaves a
\* native callback dispatching to that handler on the new handle, and every
\* event reported on an open port then invokes that handler, once.
C1_RetroactiveBinding ==
    binding.cb # None =>
       /\ (result.op = "open_port" /\ result.ret = "self") =>
             LET newport == ptrs[Len(ptrs)]
             IN /\ handles[newport].port = result.port
                /\ handles[newport].reg.fn # "none"
                /\ handles[newport].reg.cb = binding.cb
       /\ result.op = "event" =>
             Len(invoked) = 1 /\ invoked[1].cb = binding.cb

\* C1 witness: an index closed and opened again while a handler is installed
C1_Witness ==
    /\ result.op = "open_port" /\ result.ret = "self" /\ binding.cb # None
    /\ Len(handles) = 2 /\ handles[1].port = result.port /\ ~handles[1].connected
    /\ handles[2].reg.cb = binding.cb

\* C2 (as claimed): after set_callback(h, src_as_string=False) with a handler of
\* three parameters, every event on an open port p invokes h(p, message,
\* time_stamp), the source being the index p, until the binding is replaced.
C2_UniformSourceMode ==
    (result.op = "event" /\ binding.cb # None
       /\ func_get_numargs(binding.cb) = 3 /\ ~binding.src_as_string) =>
          /\ Len(invoked) = 1
          /\ invoked[1].cb = binding.cb
          /\ invoked[1].src = SrcIndex(result.port)

\* C3: when set_callback(h2) or callback = h2 returns, every open handle has
\* one registration, made in this call without being refused, dispatching to
\* h2 under the convention of h2's parameter count.
C3_Supersedes ==
    ((result.op = "set_callback" /\ result.ret = "self")
        \/ (result.op = "callback" /\ binding.cb # None)) =>
       /\ py_callback = binding.cb
       /\ \A h \in OpenHandles :
             /\ handles[h].reg.cb = binding.cb
             /\ func_get_numargs(binding.cb) \in {2, 3} =>
                   handles[h].reg.fn = Convention(binding.cb)
             /\ Cardinality({k \in 1..Len(native) :
                   native[k].call = "setCallback" /\ native[k].h = h}) = 1
       /\ \A k \in 1..Len(native) : native[k].call = "setCallback" => native[k].ok

\* C3 witness: a binding replaced on two open handles
C3_Witness ==
    /\ result.op = "set_callback" /\ result.ret = "self"
    /\ Len(ptrs) = 2
    /\ CancelledSome
    /\ \A h \in OpenHandles : handles[h].reg.cb = binding.cb

\* C4: from callback = None until a handler is installed, the getter returns
\* None, no open handle has a native callback, and an event invokes nothing.
C4_Cancelled ==
    binding.cb = None =>
       /\ get_callback(Cur) = None
       /\ \A h \in OpenHandles : handles[h].reg = NoReg
       /\ result.op = "event" => invoked = <<>>

\* C4 witness: an event on a port whose registration callback = None cancelled
C4_Witness ==
    /\ result.op = "event" /\ binding.cb = None /\ invoked = <<>>
    /\ DictGet(hascallback, result.port) = FALSE
    /\ result.port \in DOMAIN hascallback

\* C5 (as claimed): on return of close_ports no handle is open, the flags are
\* empty and the callback getter returns None.
C5_ClosePortsClearsBinding ==
    result.op = "close_ports" =>
       /\ ptrs = <<>> /\ openedports = <<>>
       /\ hascallback = EmptyDict
       /\ get_callback(Cur) = None

\* C6: close_ports closes every open handle and leaves none of the handles
\* it closed with a native callback; a cancelCallback on a handle comes
\* before its closePort.
C6_ClosePortsCancels ==
    result.op = "close_ports" =>
       /\ \A h \in 1..Len(handles) : ~handles[h].connected
       /\ \A k \in 1..Len(native) :
             native[k].call = "closePort" =>
                /\ handles[native[k].h].reg = NoReg
                /\ \A j \in 1..Len(native) :
                      (native[j].call = "cancelCallback" /\ native[j].h = native[k].h)
                         => j < k

\* C6 witness: close_ports cancelled a registration
C6_Witness ==
    /\ result.op = "close_ports" /\ CancelledSome
    /\ Len(native) = 4

\* C7 (as claimed): close_port(i) on an open index leaves the handle it closed
\* without a native callback (it cancelled it before closing).
C7_ClosePortCancels ==
    (result.op = "close_port" /\ result.ret = "1") =>
       \A k \in 1..Len(native) :
          native[k].call = "closePort" => handles[native[k].h].reg = NoReg

\* C8: the opened ports are exactly the indices whose most recent successful
\* call was an open, each once; open_port of a valid index that is not open
\* succeeds.
C8_OpenSet ==
    /\ Range(openedports) = lastopen
    /\ Cardinality(Range(openedports)) = Len(openedports)
    /\ (result.op = "open_port" /\ result.port < getPortCount /\ result.ret # "self")
          => result.port \in lastopen

\* C8 witness: an index opened again after it was closed, beside another
C8_Witness ==
    /\ result.op = "open_port" /\ result.ret = "self"
    /\ \E h \in 1..Len(handles) : handles[h].port = result.port /\ ~handles[h].connected
    /\ result.port \in Range(openedports)

\* C9: open_port(i) for an open i raises ValueError and changes nothing, and
\* makes no provider call.
C9_AlreadyOpen ==
    [][\A port \in Range(openedports) :
          (result'.op = "open_port" /\ result'.port = port) =>
             /\ result'.ret = "ValueError: Port already open!"
             /\ native' = <<>>
             /\ UNCHANGED hubvars]_vars

\* C9 witness: a refused second open
C9_Witness ==
    /\ result.op = "open_port" /\ result.ret = "ValueError: Port already open!"
    /\ result.port \in Range(openedports)

\* C10: open_port(i) with i at or past the port count raises ValueError before
\* any handle is created, and changes nothing.
C10_OutOfRange ==
    [][(result'.op = "open_port" /\ result'.port >= getPortCount) =>
          /\ result'.ret = "ValueError: Port out of range"
          /\ native' = <<>>
          /\ UNCHANGED hubvars]_vars

\* C10 witness: a refused open of the index equal to the port count
C10_Witness ==
    /\ result.op = "open_port" /\ result.ret = "ValueError: Port out of range"
    /\ result.port = getPortCount

\* C11: close_port(i) for an index that is not open returns 0, makes no
\* provider call and changes nothing.
C11_CloseNotOpen ==
    [][\A port \in 0..getPortCount :
          (port \notin Range(openedports)
              /\ result'.op = "close_port" /\ result'.port = port) =>
             /\ result'.ret = "0"
             /\ native' = <<>>
             /\ UNCHANGED hubvars]_vars

\* C11 witness: a second close of an index that had been open
C11_Witness ==
    /\ result.op = "close_port" /\ result.ret = "0"
    /\ \E h \in 1..Len(handles) : handles[h].port = result.port /\ ~handles[h].connected
    /\ result.port \notin Range(openedports)

\* C12 (as claimed): open_ports skips an index that is already open when the
\* batch reaches it, so the call always returns the hub.
C12_BatchSkipsOpen ==
    result.op = "open_ports" => result.ret = "self"

\* C13: set_callback with a handler of neither two nor three parameters
\* raises ValueError and changes nothing: binding, flags, registrations.
C13_InvalidCallback ==
    [][\A callback \in Handlers, src_as_string \in BOOLEAN :
          (/\ result'.op = "set_callback"
           /\ func_get_numargs(callback) \notin {2, 3}
           /\ SetCallback(callback, src_as_string)) =>
             /\ result'.ret = "ValueError: Your callback has to have either the signature"
             /\ native' = <<>>
             /\ UNCHANGED hubvars]_vars

\* C13 witness: the refusal with a binding installed on an open port
C13_Witness ==
    /\ result.op = "set_callback" /\ result.ret # "self"
    /\ binding.cb # None /\ py_callback = binding.cb
    /\ \E h \in OpenHandles : handles[h].reg.cb = binding.cb

\* C14 (as claimed): the callback property classifies like set_callback, so an
\* assignment never installs a handler of another parameter count than 2 or 3.
C14_SameClassification ==
    result.op = "callback" =>
       (py_callback = None \/ func_get_numargs(py_callback) \in {2, 3})

\* C15: with a two-parameter handler installed, an event on an open handle
\* invokes it once as h(message, time_stamp), without a source, the message
\* being the reported payload byte for byte and the time stamp the reported one.
C15_TwoArgDispatch ==
    [][\A h \in 1..Len(handles), r \in Reports :
          (binding.cb # None /\ func_get_numargs(binding.cb) = 2
              /\ Event(h, r.message, r.time_stamp)) =>
             invoked' = <<[cb |-> binding.cb, nargs |-> 2, src |-> NoSrc,
                           message |-> r.message, time_stamp |-> r.time_stamp]>>]_vars

\* C15 witness: a two-parameter handler invoked with a three-byte message
C15_Witness ==
    /\ result.op = "event" /\ Len(invoked) = 1
    /\ func_get_numargs(invoked[1].cb) = 2 /\ invoked[1].nargs = 2
    /\ invoked[1].message = <<144, 60, 100>>

\* C16: with a three-parameter handler installed with the name as source, an
\* event on open port p invokes h(name of p, message, time_stamp), wherever
\* p's handle stands in the open list.
C16_SourceIsPortName ==
    (result.op = "event" /\ binding.cb # None
        /\ func_get_numargs(binding.cb) = 3 /\ binding.src_as_string) =>
       /\ Len(invoked) = 1
       /\ invoked[1].cb = binding.cb /\ invoked[1].nargs = 3
       /\ invoked[1].src.kind = "name"
       /\ invoked[1].src.name = getPortName(result.port)

\* C16 witness: port 1 opened first, port 0 second, an event on each position
C16_Witness ==
    /\ result.op = "event" /\ Len(invoked) = 1 /\ invoked[1].nargs = 3
    /\ openedports = <<1, 0>>
    /\ result.port = 0
    /\ invoked[1].src.name = Korg

\* what C17 expects of ports_matching: the provider's indices, ascending
ProviderIndices(listing, pattern, exclude) ==
    LET hit(i) == /\ fnmatch(listing[i], pattern)
                  /\ (exclude.none \/ ~fnmatch(listing[i], exclude.pat))
        found == SelectSeq([i \in 1..Len(listing) |-> i], hit)
    IN [k \in 1..Len(found) |-> found[k] - 1]

\* C17 (as claimed): for every listing, names may be empty, ports_matching
\* returns in ascending order exactly the provider indices whose name matches
\* the pattern and not the exclude pattern.
C17_MatchesProviderIndices ==
    matching.called =>
       matching.indices =
          ProviderIndices(matching.listing, matching.pattern, matching.exclude)

\* C18 (as claimed): open_port(q) and close_port(q) never unregister the native
\* callback of another port's handle.
C18_OthersStayRegistered ==
    result.op \in {"open_port", "close_port"} =>
       \A k \in 1..Len(native) :
          native[k].call = "cancelCallback" => handles[native[k].h].port = result.port

\* C19: an event causes at most one invocation, made in the step of the event
\* itself and carrying that event's payload and time stamp; no other step
\* invokes a handler, so nothing is held back and delivered later.
C19_SynchronousDispatch ==
    [][/\ \A h \in 1..Len(handles), r \in Reports :
             Event(h, r.message, r.time_stamp) =>
                /\ Len(invoked') <= 1
                /\ \A k \in 1..Len(invoked') :
                      /\ invoked'[k].message = r.message
                      /\ invoked'[k].time_stamp = r.time_stamp
       /\ result'.op # "event" => invoked' = <<>>]_vars

\* C19 witness: the second report delivered to a three-parameter handler
C19_Witness ==
    /\ result.op = "event" /\ Len(invoked) = 1
    /\ invoked[1].time_stamp = 5 /\ invoked[1].nargs = 3

\* C20: get_message raises on every call and changes nothing.
C20_GetMessageFails ==
    [][result'.op = "get_message" =>
          /\ result'.ret = "TypeError: 'NotImplementedType' object is not callable"
          /\ native' = <<>> /\ invoked' = <<>>
          /\ UNCHANGED hubvars]_vars

\* C20 witness: the call on a hub with an open port and a handler
C20_Witness ==
    /\ result.op = "get_message" /\ result.ret # None
    /\ Len(ptrs) > 0 /\ py_callback # None

\* C22: between operations the handle list and the opened-port list have the
\* same length and correspond position by position: the handle at position k
\* is the connected handle that was opened for the index at position k.
C22_LockStep ==
    /\ Len(ptrs) = Len(openedports)
    /\ \A k \in 1..Len(ptrs) :
          /\ ptrs[k] \in 1..Len(handles)
          /\ handles[ptrs[k]].port = openedports[k]
          /\ handles[ptrs[k]].connected
    /\ \A k, l \in 1..Len(ptrs) : ptrs[k] = ptrs[l] => k = l

\* C22 witness: the first of two open ports was closed, then an open failed
C22_Witness ==
    /\ result.op = "open_port" /\ result.ret # "self"
    /\ Len(ptrs) = 1 /\ ptrs[1] = 2 /\ ~handles[1].connected

\* the handle currently open for port p has a native callback registered
Registered(p) ==
    \E k \in 1..Len(ptrs) :
       /\ k <= Len(openedports) /\ openedports[k] = p
       /\ handles[ptrs[k]].reg # NoReg

\* C27 (as claimed): hascallback[p] is true if and only if p is open and a
\* native callback is registered on the handle open for p.
C27_FlagIffRegistered ==
    \A p \in 0..(getPortCount - 1) :
       DictGet(hascallback, p) <=> (p \in Range(openedports) /\ Registered(p))

\* C28 (as claimed): cancelCallback is only called on a handle that has a
\* native callback registered, setCallback only on a handle that has none.
C28_NoDoubleCancelOrRegister ==
    \A k \in 1..Len(native) :
       native[k].call \in {"cancelCallback", "setCallback"} => native[k].ok

\* C29 (as claimed): when a handler replaces another with two or more ports
\* open, every cancelCallback of the call comes before its first setCallback.
C29_CancelAllThenRegister ==
    (result.op \in {"callback", "set_callback"} /\ Len(ptrs) >= 2) =>
       \A k, l \in 1..Len(native) :
          (native[k].call = "setCallback" /\ native[l].call = "cancelCallback") => l < k

\* C21: close_ports always returns 1; with no port open it makes no provider
\* call; a second call right after the first makes no provider call and
\* changes nothing; with ports open and no callback registered it closes each
\* open handle, once, and cancels nothing.
C21_ClosePortsIdempotent ==
    [][result'.op = "close_ports" =>
          /\ result'.ret = "1"
          /\ ptrs' = <<>> /\ openedports' = <<>>
          /\ ptrs = <<>> => native' = <<>>
          /\ result.op = "close_ports" => (native' = <<>> /\ UNCHANGED hubvars)
          /\ hascallback = EmptyDict =>
                native' = [k \in 1..Len(ptrs) |->
                             [call |-> "closePort", h |-> ptrs[k], ok |-> TRUE]]]_vars

\* C21 witness: close_ports twice in a row, the first one with a port open
C21_Witness ==
    /\ result.op = "close_ports" /\ native = <<>>
    /\ ptrs = <<>> /\ handles # <<>>
    /\ \A h \in 1..Len(handles) : ~handles[h].connected

\* C30: closePort is never called on a handle that is already closed, and
\* after teardown every handle that open_port created has been closed: each
\* handle is closed exactly once.
C30_ClosedExactlyOnce ==
    /\ \A k \in 1..Len(native) : native[k].call = "closePort" => native[k].ok
    /\ \A k, l \in 1..Len(native) :
          (native[k].call = "closePort" /\ native[l].call = "closePort"
             /\ native[k].h = native[l].h) => k = l
    /\ result.op = "dealloc" => \A h \in 1..Len(handles) : ~handles[h].connected

\* C30 witness: teardown closes one handle, another was closed before
C30_Witness ==
    /\ result.op = "dealloc"
    /\ Len(handles) = 2
    /\ Len(native) = 1 /\ native[1].call = "closePort"

\* C23 (as claimed): send_messages(messagetype, messages) sends, in list
\* order, one message [messagetype | channel, value1, value2] per tuple.
C23_StatusIsTypeOrChannel ==
    midiout.op = "send_messages" =>
       LET messagetype == midiout.args[1]
           messages    == midiout.args[2]
       IN /\ Len(midiout.sent) = Len(messages)
          /\ \A k \in 1..Len(messages) :
                midiout.sent[k] =
                   <<messagetype + messages[k][1], messages[k][2], messages[k][3]>>

\* the status byte a channel message of that type carries on that channel
Status(messagetype, channel) == messagetype + channel

\* the type of the message a MidiOut call sends
TypeOf(op) ==
    CASE op = "send_noteon" -> 144
      [] op = "send_noteoff" -> 128
      [] op = "send_cc" -> 176

C25_OpenPortReturns ==
    (midiin.op = "open_port" /\ midiin.arg \in 0..(getPortCount - 1)) =>
       /\ midiin.ret = "self"
       /\ midiin.openedports # None
       /\ midiin.arg \in Range(midiin.openedports)

\* C26 (as claimed): send_noteon_many(channel, notes, vels) with one integer
\* channel and two lists of length n sends the n messages
\* [0x90 | channel, notes[k], vels[k]], in list order.
C26_SingleChannelMany ==
    (midiout.op = "send_noteon_many" /\ IsInt(midiout.args[1])) =>
       LET channel == midiout.args[1].int
           notes   == midiout.args[2]
           vels    == midiout.args[3]
       IN /\ midiout.ret = None
          /\ midiout.sent = [k \in 1..Len(notes) |->
                               <<Status(144, channel), notes[k], vels[k]>>]

\* a sequence without its k-th element
Without(s, k) == SubSeq(s, 1, k - 1) \o SubSeq(s, k + 1, Len(s))

ContextAlive(S) ==
    \A h \in 1..Len(S.handles) :
       (S.handles[h].connected /\ S.handles[h].reg # NoReg) =>
          IF S.handles[h].reg.fn = "midi_in_callback"
          THEN S.handles[h].reg.cb = S.py_callback
          ELSE [src |-> S.handles[h].reg.src, cb |-> S.handles[h].reg.cb]
                  \in Range(S.qualified_callbacks)

\* the hub inside a change of handler, when the new handler has been stored
\* and no handle has been cancelled yet
Inside(callback) ==
    IF func_get_numargs(callback) = 3
    THEN set_qualified_callback_enter(Cur, callback)
    ELSE callback_set_enter(Cur, callback)

\* C32 (as claimed): also inside set_callback and the callback assignment,
\* every context registered on a connected handle is referenced by the hub.
C32_ContextAliveInside ==
    [][\A callback \in Handlers :
          (CallbackAssign(callback) \/ \E src_as_string \in BOOLEAN :
                                         /\ func_get_numargs(callback) \in {2, 3}
                                         /\ SetCallback(callback, src_as_string)) =>
             ContextAlive(Inside(callback))]_vars

\* C33 (as claimed): on a MidiIn, assigning a handler while another is
\* installed cancels the old registration first: no setCallback reaches a
\* handle that has a callback, and afterwards the registered context is the
\* new handler; assigning None leaves nothing registered.
C33_ReplaceCancelsFirst ==
    midiin.op = "callback" =>
       /\ \A k \in 1..Len(midiin.native) :
             midiin.native[k].call = "setCallback" => midiin.native[k].ok
       /\ midiin.reg = midiin.arg

\* C34: over the lifetime of a MidiOut at most one open_virtual_port call
\* reaches the provider: once one has, every later open_virtual_port ends in
\* IOError, calls the provider not at all and leaves the list of opened ports
\* as it is, whether or not close_port has been called in between.
C34_OneVirtualPort ==
    [][midiout'.op = "open_virtual_port" =>
          /\ midiout'.virtualcalls <= 1
          /\ IF midiout.virtualcalls > 0
             THEN /\ midiout'.ret = "IOError: Only one virtual port can be opened. If you need more, create a new MidiOut"
                  /\ midiout'.native = <<>>
                  /\ midiout'.openedports = midiout.openedports
                  /\ midiout'.virtualcalls = midiout.virtualcalls
             ELSE /\ midiout'.ret = "self"
                  /\ midiout'.virtualcalls = 1
                  /\ Len(midiout'.openedports) = 1]_vars

\* a second open_virtual_port, after close_port, has failed
C34_Witness ==
    /\ midiout.op = "open_virtual_port"
    /\ midiout.closed
    /\ midiout.virtualcalls = 1
    /\ midiout.native = <<>>
    /\ midiout.ret # "self"
    /\ midiout.openedports = <<PyBytes(<<98>>)>>

\* C35 (as claimed): send_pitchbend(channel, transp) with transp up to 16383
\* sends exactly one message [0xE0 | channel, transp mod 128, transp div 128],
\* both data bytes at most 127 and lsb + 128*msb = transp; above 16383 it
\* sends nothing and raises nothing.
C35_PitchbendMessage ==
    midiout.op = "send_pitchbend" =>
       LET channel == midiout.args[1]
           transp == midiout.args[2]
       IN /\ midiout.ret = None
          /\ IF transp > 16383
             THEN midiout.sent = <<>>
             ELSE /\ Len(midiout.sent) = 1
                  /\ midiout.sent[1] = <<224 + channel, transp % 128, transp \div 128>>
                  /\ midiout.sent[1][2] <= 127 /\ midiout.sent[1][3] <= 127
                  /\ midiout.sent[1][2] + 128 * midiout.sent[1][3] = transp

\* C36 (as claimed): _send_raw hands the provider exactly the three bytes it
\* is given, with msg3_locked 0 as with 1, and leaves the flag as it was.
C36_ThreeBytes ==
    [][midiout'.op \in {"send_raw", "send_message"} =>
          /\ midiout'.ret = None
          /\ midiout'.sent =
                << IF midiout'.op = "send_raw" THEN midiout'.args ELSE midiout'.args[1] >>
          /\ midiout'.msg3_locked = midiout.msg3_locked]_vars

\* C37 (as claimed): for every cents in -200..200, cents2pitchbend(cents) lies
\* in 0..16383, with -200 -> 0, 0 -> 8192 and 200 -> 16383, and pitchbend2cents
\* takes it back to cents.
C37_RoundTrip ==
    midiout.op = "cents2pitchbend" =>
       LET cents == midiout.args[1]
       IN /\ midiout.ret \in 0..16383
          /\ (cents = -200 => midiout.ret = 0)
          /\ (cents = 0 => midiout.ret = 8192)
          /\ (cents = 200 => midiout.ret = 16383)
          /\ pitchbend2cents(midiout.ret, DefaultDeviation) = cents

====
